---- MODULE Spec2Model ----
(***************************************************************************)
(* A model of the setup scripts of the python-try template:                *)
(*   scripts/init_new_project.py        (the bootstrap, SpecBoot)          *)
(*   scripts/setup_hook_commit_message.py (the hook installer, SpecHook,   *)
(*                                       and its validator, SpecValidate)  *)
(*   scripts/check_git_config.py        (the git identity checks,          *)
(*                                       SpecCheck)                        *)
(* Strings are sequences of one-character strings, so that strip(),        *)
(* lower(), replace() and the regular expression act on characters.        *)
(***************************************************************************)
EXTENDS Integers, Sequences, FiniteSets, TLC

VARIABLES
    \* ---- scripts/init_new_project.py
    pc,          \* position of init_new_project
    exitCode,    \* process exit status, NoExit while running
    outcome,     \* how the run ended (history)
    failedSteps, \* the steps that failed, raised or swallowed (history)
    gitOnPath,   \* shutil.which("git") is not None
    uvOnPath,    \* shutil.which("uv") is not None
    nameArg,     \* --name argument ("" when absent)
    confirm,     \* the raw answer to the confirmation prompt
    prompted,    \* the confirmation prompt was shown (history)
    defaults,    \* user_name, user_email read from git config
    config,      \* ProjectConfig
    gitDir,      \* project_root / ".git"
    backups,     \* backup paths present in project_root
    pkgDir,      \* the package directory under src/
    manifest,    \* pyproject.toml
    aux,         \* the auxiliary files
    auxIdx,      \* index of the next _update_* call of step 6
    orig,        \* the project as it was before the run (history)
    resolved,    \* the name, author and email _get_user_input resolved (history)
    \* ---- scripts/setup_hook_commit_message.py
    hookPc, platform, hooksDir, hookFiles, umask, hookRet,
    \* ---- the generated validate_commit_msg.py
    valPc, commitMsg, valResult, valExit, valPrinted,
    \* ---- scripts/check_git_config.py
    chkPc, gitEnv, chkFn, chkRet, chkLocals, chkGlobals, chkCalls, chkLog,
    \* ---- src/python_try/main.py
    demoPc, demoArg, demoRet

bootVars == <<pc, exitCode, outcome, failedSteps, gitOnPath, uvOnPath, nameArg,
              confirm, prompted, defaults, config, gitDir, backups, pkgDir,
              manifest, aux, auxIdx, orig, resolved>>
hookVars == <<hookPc, platform, hooksDir, hookFiles, umask, hookRet>>
valVars == <<valPc, commitMsg, valResult, valExit, valPrinted>>
chkVars == <<chkPc, gitEnv, chkFn, chkRet, chkLocals, chkGlobals, chkCalls, chkLog>>
demoVars == <<demoPc, demoArg, demoRet>>
vars == <<bootVars, hookVars, valVars, chkVars, demoVars>>

(***************************************************************************)
(* Strings                                                                 *)
(***************************************************************************)
Whitespace == {" ", "\n", "\t"}

\* str.strip(): drop leading and trailing whitespace.
Strip(s) ==
    LET keep == {i \in 1..Len(s) : s[i] \notin Whitespace}
    IN  IF keep = {} THEN <<>>
        ELSE LET lo == CHOOSE i \in keep : \A j \in keep : i <= j
                 hi == CHOOSE i \in keep : \A j \in keep : j <= i
             IN  SubSeq(s, lo, hi)

LowerChar(c) ==
    CASE c = "Y" -> "y"
      [] c = "N" -> "n"
      [] c = "T" -> "t"
      [] c = "R" -> "r"
      [] c = "U" -> "u"
      [] c = "E" -> "e"
      [] c = "I" -> "i"
      [] c = "P" -> "p"
      [] c = "F" -> "f"
      [] c = "A" -> "a"
      [] c = "L" -> "l"
      [] c = "S" -> "s"
      [] c = "M" -> "m"
      [] OTHER -> c

\* str.lower()
Lower(s) == [i \in 1..Len(s) |-> LowerChar(s[i])]

\* str.replace("_", "-")
UnderscoreToDash(s) == [i \in 1..Len(s) |-> IF s[i] = "_" THEN "-" ELSE s[i]]

\* str.startswith(p)
StartsWith(s, p) == Len(p) <= Len(s) /\ SubSeq(s, 1, Len(p)) = p

\* Python truthiness of a str
Truthy(s) == s # <<>>

\* x or y, on strings
OrElse(x, y) == IF Truthy(x) THEN x ELSE y

(***************************************************************************)
(* scripts/init_new_project.py                                             *)
(***************************************************************************)
NoExit == (-1)
MaxOldCommits == 2

OldPkg == <<"p","y","t","h","o","n","_","t","r","y">>
OldDash == <<"p","y","t","h","o","n","-","t","r","y">>
NoneStr == <<"n","o","n","e">>
OldOrigin == <<"o">>

\* The _update_* calls of step 6, in call order, with the old token each
\* replaces and whether the new token is the dashed name.
AuxOrder == << [file |-> "devcontainer.json", old |-> OldDash, dash |-> TRUE],
               [file |-> "README.md", old |-> OldDash, dash |-> TRUE],
               [file |-> "mkdocs.yml", old |-> OldDash, dash |-> TRUE],
               [file |-> "Dockerfile", old |-> OldPkg, dash |-> FALSE],
               [file |-> "docker-compose.yml", old |-> OldDash, dash |-> TRUE],
               [file |-> "Makefile", old |-> OldDash, dash |-> TRUE],
               [file |-> "tox.ini", old |-> OldPkg, dash |-> FALSE] >>
AuxFiles == {AuxOrder[i].file : i \in 1..Len(AuxOrder)}
AuxOld(f) == (CHOOSE i \in 1..Len(AuxOrder) : AuxOrder[i].file = f)

\* Inputs typed at the prompts, and the --name argument.
ConfirmAnswers == { <<"y">>, <<"Y">>, <<"n">>, <<>>, <<"y","e","s">>, <<"y"," ">> }
NameArgs == { <<>>, <<" ">>, <<"n","_","p">> }
RawNames == { <<>>, <<" ">>, <<" ","a","b"," ">>, <<"a","_","b">> }
RawAuthors == { <<>>, <<" ","B"," ">> }
RawEmails == { <<>>, <<"e">> }
RawRepos == { <<>>, <<" ","u"," ">> }
\* What `git config user.name` / `git config user.email` print, or FALSE for a
\* CalledProcessError of either call.
GitConfigOutcomes == { [ok |-> FALSE, name |-> <<>>, email |-> <<>>],
                       [ok |-> TRUE, name |-> <<"\n">>, email |-> <<"\n">>],
                       [ok |-> TRUE, name |-> <<"G","\n">>, email |-> <<"h","\n">>] }

OldAuthorLists == { << [name |-> <<"A">>, email |-> <<"a">>] >>,
                    << [name |-> <<"A">>, email |-> <<"a">>],
                       [name |-> <<"C">>, email |-> <<"c">>] >> }

OldManifest(authors) ==
    [ name |-> OldDash, authors |-> authors, version |-> "0.1.0",
      description |-> "template", documentation |-> <<"d">>,
      repository |-> <<"r">>, mypyFiles |-> OldPkg, coverageSource |-> OldPkg ]

NoConfig == [name |-> <<>>, authors |-> <<>>, version |-> "", description |-> "",
             documentation_url |-> <<>>, repository_url |-> <<>>]

\* The working tree as git sees it.
Tree == [manifest |-> manifest, aux |-> aux, pkgDir |-> pkgDir]

NoGit == [exists |-> FALSE, fresh |-> FALSE, commits |-> 0, remote |-> <<>>,
          index |-> <<>>, head |-> <<>>]

AuxLayouts == { AuxFiles, {"README.md", "tox.ini"} }

InitAux(present) ==
    [f \in AuxFiles |-> [exists |-> f \in present,
                         ref |-> IF f \in present THEN AuxOrder[AuxOld(f)].old ELSE <<>>]]

\* Before _get_user_input has run.
NotResolved == [read |-> FALSE, name |-> <<>>, author |-> <<>>, email |-> <<>>]

BootIdle ==
    /\ pc = "idle" /\ exitCode = NoExit /\ outcome = "idle" /\ failedSteps = {}
    /\ gitOnPath = TRUE /\ uvOnPath = TRUE /\ nameArg = <<>> /\ confirm = <<>>
    /\ prompted = FALSE /\ defaults = [name |-> <<>>, email |-> <<>>]
    /\ config = NoConfig /\ gitDir = NoGit /\ backups = {}
    /\ pkgDir = [exists |-> FALSE, name |-> <<>>]
    /\ manifest = OldManifest(<<>>) /\ aux = InitAux({}) /\ auxIdx = 1
    /\ orig = [gitDir |-> NoGit, manifest |-> OldManifest(<<>>), aux |-> InitAux({}),
               pkgDir |-> [exists |-> FALSE, name |-> <<>>]]
    /\ resolved = NotResolved

BootInit ==
    /\ pc = "resolve" /\ exitCode = NoExit /\ outcome = "running" /\ failedSteps = {}
    /\ gitOnPath \in BOOLEAN /\ uvOnPath \in BOOLEAN
    /\ nameArg \in NameArgs
    /\ confirm = <<>> /\ prompted = FALSE
    /\ defaults = [name |-> <<>>, email |-> <<>>]
    /\ config = NoConfig
    /\ backups = {}
    /\ pkgDir \in { [exists |-> TRUE, name |-> OldPkg], [exists |-> FALSE, name |-> <<>>] }
    /\ \E authors \in OldAuthorLists : manifest = OldManifest(authors)
    /\ \E present \in AuxLayouts : aux = InitAux(present)
    /\ auxIdx = 1
    /\ \/ gitDir = NoGit
       \/ \E c \in 1..MaxOldCommits, r \in {<<>>, OldOrigin} :
            gitDir = [exists |-> TRUE, fresh |-> FALSE, commits |-> c, remote |-> r,
                      index |-> <<Tree>>, head |-> <<Tree>>]
    /\ orig = [gitDir |-> gitDir, manifest |-> manifest, aux |-> aux, pkgDir |-> pkgDir]
    /\ resolved = NotResolved


\* The project as the run finds or leaves it.
Project == [gitDir |-> gitDir, manifest |-> manifest, aux |-> aux, pkgDir |-> pkgDir]

otherVarsOfBoot == <<hookVars, valVars, chkVars, demoVars>>

\* sys.exit(code), or an uncaught exception (status 1), or the return of the
\* script's last call (status 0).
Exit(code, how, steps) ==
    /\ pc' = "exited"
    /\ exitCode' = code
    /\ outcome' = how
    /\ failedSteps' = failedSteps \cup steps

\* _resolve_executable: TRUE when it returns the path, FALSE when it raises
\* FileNotFoundError.
ResolvedAlways(found) == TRUE

ResolveExecutable(found) == found

\* git = _resolve_executable("git")
Resolve ==
    /\ pc = "resolve"
    /\ IF ResolveExecutable(gitOnPath)
       THEN /\ pc' = "confirm"
            /\ UNCHANGED <<exitCode, outcome, failedSteps>>
       ELSE Exit(1, "missing_dep", {})
    /\ UNCHANGED <<gitOnPath, uvOnPath, nameArg, confirm, prompted, defaults, config,
                   gitDir, backups, pkgDir, manifest, aux, auxIdx, orig, resolved>>
    /\ UNCHANGED otherVarsOfBoot

\* confirm = input(...).lower(); if confirm != "y"
DeclinedOnlyOnN(ans) == Lower(ans) = <<"n">>

Declined(ans) == Lower(ans) # <<"y">>

Confirm ==
    /\ pc = "confirm"
    /\ \E ans \in ConfirmAnswers :
         /\ confirm' = ans
         /\ prompted' = TRUE
         /\ IF Declined(ans)
            THEN Exit(0, "declined", {})
            ELSE /\ pc' = "gitconfig"
                 /\ UNCHANGED <<exitCode, outcome, failedSteps>>
    /\ UNCHANGED <<gitOnPath, uvOnPath, nameArg, defaults, config,
                   gitDir, backups, pkgDir, manifest, aux, auxIdx, orig, resolved>>
    /\ UNCHANGED otherVarsOfBoot

\* user_name / user_email from git config, "none" on CalledProcessError
GitConfigDefaults(o) ==
    IF o.ok THEN [name |-> Strip(o.name), email |-> Strip(o.email)]
    ELSE [name |-> NoneStr, email |-> NoneStr]

ReadGitConfig ==
    /\ pc = "gitconfig"
    /\ \E o \in GitConfigOutcomes : defaults' = GitConfigDefaults(o)
    /\ pc' = "input"
    /\ UNCHANGED <<exitCode, outcome, failedSteps, gitOnPath, uvOnPath, nameArg, confirm,
                   prompted, config, gitDir, backups, pkgDir, manifest, aux, auxIdx, orig, resolved>>
    /\ UNCHANGED otherVarsOfBoot

\* The name, author and email _get_user_input resolves.
ResolvedName(arg, rawName) == IF Truthy(arg) THEN arg ELSE Strip(rawName)
ResolvedAuthor(rawAuthor, userName) == OrElse(Strip(rawAuthor), userName)
ResolvedEmail(rawEmail, userEmail) == OrElse(Strip(rawEmail), userEmail)

MakeConfig(name, author, email, repo) ==
    [ name |-> name,
      authors |-> << [name |-> author, email |-> email] >>,
      version |-> "0.0.1",
      description |-> "A sample Python project using Poetry.",
      documentation_url |-> repo \o <<"/","d","o","c","s">>,
      repository_url |-> repo ]

\* if not name / if not author / if not email: sys.exit(130)
InputInvalidNoEmailCheck(name, author, email) == ~Truthy(name) \/ ~Truthy(author)

InputInvalid(name, author, email) == ~Truthy(name) \/ ~Truthy(author) \/ ~Truthy(email)

GetUserInput ==
    /\ pc = "input"
    /\ \E rawName \in RawNames, rawAuthor \in RawAuthors, rawEmail \in RawEmails,
          rawRepo \in RawRepos :
         LET name == ResolvedName(nameArg, rawName)
             author == ResolvedAuthor(rawAuthor, defaults.name)
             email == ResolvedEmail(rawEmail, defaults.email)
         IN  /\ resolved' = [read |-> TRUE, name |-> name, author |-> author,
                             email |-> email]
             /\ IF InputInvalid(name, author, email)
                THEN /\ Exit(130, "invalid_input", {})
                     /\ UNCHANGED config
                ELSE /\ config' = MakeConfig(name, author, email, Strip(rawRepo))
                     /\ pc' = "rm_git"
                     /\ UNCHANGED <<exitCode, outcome, failedSteps>>
    /\ UNCHANGED <<gitOnPath, uvOnPath, nameArg, confirm, prompted, defaults,
                   gitDir, backups, pkgDir, manifest, aux, auxIdx, orig>>
    /\ UNCHANGED otherVarsOfBoot

\* 1. shutil.rmtree(git_dir, ignore_errors=True): an error is swallowed and
\* leaves the directory in place.
RemoveOldGit ==
    /\ pc = "rm_git"
    /\ IF gitDir.exists
       THEN \E ok \in BOOLEAN :
              IF ok THEN gitDir' = NoGit /\ UNCHANGED failedSteps
              ELSE UNCHANGED gitDir /\ failedSteps' = failedSteps \cup {"rmtree"}
       ELSE UNCHANGED <<gitDir, failedSteps>>
    /\ pc' = "git_init"
    /\ UNCHANGED <<exitCode, outcome, gitOnPath, uvOnPath, nameArg, confirm, prompted,
                   defaults, config, backups, pkgDir, manifest, aux, auxIdx, orig, resolved>>
    /\ UNCHANGED otherVarsOfBoot

\* 2. git init -b main: a fresh repository, or "Reinitialized existing"
FreshGit == [exists |-> TRUE, fresh |-> TRUE, commits |-> 0, remote |-> <<>>,
             index |-> <<>>, head |-> <<>>]

GitInit ==
    /\ pc = "git_init"
    /\ \E ok \in BOOLEAN :
         IF ok
         THEN /\ gitDir' = IF gitDir.exists THEN gitDir ELSE FreshGit
              /\ pc' = "remote"
              /\ UNCHANGED <<exitCode, outcome, failedSteps>>
         ELSE /\ Exit(1, "step_failed", {"git_init"})
              /\ UNCHANGED gitDir
    /\ UNCHANGED <<gitOnPath, uvOnPath, nameArg, confirm, prompted, defaults, config,
                   backups, pkgDir, manifest, aux, auxIdx, orig, resolved>>
    /\ UNCHANGED otherVarsOfBoot

\* 3. git remote add origin <url>, skipped for an empty url; git refuses when
\* origin already exists.
RemoteAdd ==
    /\ pc = "remote"
    /\ IF Truthy(config.repository_url)
       THEN \E ok \in BOOLEAN :
              IF ok /\ gitDir.remote = <<>>
              THEN /\ gitDir' = [gitDir EXCEPT !.remote = config.repository_url]
                   /\ pc' = "rename"
                   /\ UNCHANGED <<exitCode, outcome, failedSteps>>
              ELSE /\ Exit(1, "step_failed", {"remote_add"})
                   /\ UNCHANGED gitDir
       ELSE /\ pc' = "rename"
            /\ UNCHANGED <<gitDir, exitCode, outcome, failedSteps>>
    /\ UNCHANGED <<gitOnPath, uvOnPath, nameArg, confirm, prompted, defaults, config,
                   backups, pkgDir, manifest, aux, auxIdx, orig, resolved>>
    /\ UNCHANGED otherVarsOfBoot

\* 4. _rename_package_directory("python_try", config.name)
RenamePackage ==
    /\ pc = "rename"
    /\ IF pkgDir.exists /\ pkgDir.name = OldPkg
       THEN \E ok \in BOOLEAN :
              IF ok
              THEN /\ pkgDir' = [exists |-> TRUE, name |-> config.name]
                   /\ pc' = "pyproject"
                   /\ UNCHANGED <<exitCode, outcome, failedSteps>>
              ELSE /\ Exit(1, "step_failed", {"rename"})
                   /\ UNCHANGED pkgDir
       ELSE /\ pc' = "pyproject"
            /\ UNCHANGED <<pkgDir, exitCode, outcome, failedSteps>>
    /\ UNCHANGED <<gitOnPath, uvOnPath, nameArg, confirm, prompted, defaults, config,
                   gitDir, backups, manifest, aux, auxIdx, orig, resolved>>
    /\ UNCHANGED otherVarsOfBoot

\* 5. _update_pyproject_toml
SrcPath(name) == <<"s","r","c","/">> \o name

ManifestAuthorsAppended(m, cfg) ==
    [ m EXCEPT !.name = cfg.name,
               !.authors = m.authors \o cfg.authors,
               !.version = cfg.version,
               !.description = cfg.description,
               !.documentation = cfg.documentation_url,
               !.repository = cfg.repository_url,
               !.mypyFiles = SrcPath(cfg.name),
               !.coverageSource = SrcPath(cfg.name) ]

UpdatedManifest(m, cfg) ==
    [ m EXCEPT !.name = cfg.name,
               !.authors = cfg.authors,
               !.version = cfg.version,
               !.description = cfg.description,
               !.documentation = cfg.documentation_url,
               !.repository = cfg.repository_url,
               !.mypyFiles = SrcPath(cfg.name),
               !.coverageSource = SrcPath(cfg.name) ]

UpdatePyproject ==
    /\ pc = "pyproject"
    /\ \E ok \in BOOLEAN :
         IF ok
         THEN /\ manifest' = UpdatedManifest(manifest, config)
              /\ pc' = "aux"
              /\ UNCHANGED <<exitCode, outcome, failedSteps>>
         ELSE /\ Exit(1, "step_failed", {"pyproject"})
              /\ UNCHANGED manifest
    /\ UNCHANGED <<gitOnPath, uvOnPath, nameArg, confirm, prompted, defaults, config,
                   gitDir, backups, pkgDir, aux, auxIdx, orig, resolved>>
    /\ UNCHANGED otherVarsOfBoot

\* 6. one _update_* call: the file's old-name token becomes the new name
NewToken(entry, cfg) == IF entry.dash THEN UnderscoreToDash(cfg.name) ELSE cfg.name

UpdatedAux(a, entry, cfg) ==
    [a EXCEPT ![entry.file].ref = IF @ = entry.old THEN NewToken(entry, cfg) ELSE @]

UpdateAux ==
    /\ pc = "aux"
    /\ auxIdx <= Len(AuxOrder)
    /\ LET entry == AuxOrder[auxIdx]
       IN  IF aux[entry.file].exists
           THEN \E ok \in BOOLEAN :
                  IF ok
                  THEN /\ aux' = UpdatedAux(aux, entry, config)
                       /\ auxIdx' = auxIdx + 1
                       /\ UNCHANGED <<pc, exitCode, outcome, failedSteps>>
                  ELSE /\ Exit(1, "step_failed", {"aux"})
                       /\ UNCHANGED <<aux, auxIdx>>
           ELSE /\ auxIdx' = auxIdx + 1
                /\ UNCHANGED <<aux, pc, exitCode, outcome, failedSteps>>
    /\ UNCHANGED <<gitOnPath, uvOnPath, nameArg, confirm, prompted, defaults, config,
                   gitDir, backups, pkgDir, manifest, orig, resolved>>
    /\ UNCHANGED otherVarsOfBoot

\* 7a. git add .
GitAdd ==
    /\ pc = "aux"
    /\ auxIdx > Len(AuxOrder)
    /\ \E ok \in BOOLEAN :
         IF ok
         THEN /\ gitDir' = [gitDir EXCEPT !.index = <<Tree>>]
              /\ pc' = "commit"
              /\ UNCHANGED <<exitCode, outcome, failedSteps>>
         ELSE /\ Exit(1, "step_failed", {"git_add"})
              /\ UNCHANGED gitDir
    /\ UNCHANGED <<gitOnPath, uvOnPath, nameArg, confirm, prompted, defaults, config,
                   backups, pkgDir, manifest, aux, auxIdx, orig, resolved>>
    /\ UNCHANGED otherVarsOfBoot

\* 7b. git commit -m ...; the script ends after it. git refuses a commit that
\* changes nothing.
GitCommit ==
    /\ pc = "commit"
    /\ \E ok \in BOOLEAN :
         IF ok /\ gitDir.index # gitDir.head
         THEN /\ gitDir' = [gitDir EXCEPT !.head = gitDir.index, !.commits = @ + 1]
              /\ Exit(0, "completed", {})
         ELSE /\ Exit(1, "step_failed", {"git_commit"})
              /\ UNCHANGED gitDir
    /\ UNCHANGED <<gitOnPath, uvOnPath, nameArg, confirm, prompted, defaults, config,
                   backups, pkgDir, manifest, aux, auxIdx, orig, resolved>>
    /\ UNCHANGED otherVarsOfBoot

BootNext ==
    \/ Resolve \/ Confirm \/ ReadGitConfig \/ GetUserInput \/ RemoveOldGit \/ GitInit
    \/ RemoteAdd \/ RenamePackage \/ UpdatePyproject \/ UpdateAux \/ GitAdd \/ GitCommit


(***************************************************************************)
(* The other scripts are not running while one script is checked.         *)
(***************************************************************************)
HookIdle ==
    /\ hookPc = "idle" /\ platform = "Linux" /\ hooksDir = FALSE
    /\ hookFiles = {} /\ umask = 0 /\ hookRet = "none"

ValIdle ==
    /\ valPc = "idle" /\ commitMsg = <<>> /\ valResult = "none"
    /\ valExit = NoExit /\ valPrinted = FALSE

ChkIdle ==
    /\ chkPc = "idle" /\ gitEnv = <<>> /\ chkFn = "none" /\ chkRet = <<>>
    /\ chkLocals = <<>> /\ chkGlobals = <<>> /\ chkCalls = 0 /\ chkLog = <<>>

DemoIdle == demoPc = "idle" /\ demoArg = <<>> /\ demoRet = [kind |-> "none", s |-> <<>>]

InitBoot == BootInit /\ HookIdle /\ ValIdle /\ ChkIdle /\ DemoIdle

SpecBoot == InitBoot /\ [][BootNext]_vars


(***************************************************************************)
(* Claims about scripts/init_new_project.py, checked under SpecBoot        *)
(***************************************************************************)

\* C1: whenever the answer to the confirmation prompt is anything but "y"
\* (in either case), the run has exited with status 0 and the project (.git,
\* package directory, pyproject.toml, auxiliary files) is as it was, with no
\* backup path created.
C1_DeclineLeavesProjectUntouched ==
    (prompted /\ Lower(confirm) # <<"y">>) =>
        /\ pc = "exited"
        /\ exitCode = 0
        /\ Project = orig
        /\ backups = {}

C1_Witness ==
    /\ prompted /\ confirm = <<"y","e","s">> /\ pc = "exited"
    /\ orig.gitDir.exists /\ orig.pkgDir.exists

\* C2: every step that deletes or replaces the .git directory is taken with
\* a backup of it in place, and every step that rewrites pyproject.toml is
\* taken with its .bak copy in place.
C2_BackupBeforeMutate ==
    [][ /\ (gitDir.exists /\ (~gitDir'.exists \/ (gitDir'.fresh /\ ~gitDir.fresh)))
            => ".git.bak" \in backups
        /\ (manifest' # manifest) => "pyproject.toml.bak" \in backups ]_vars

\* C3: a run in which a step of the mutating phase failed ends with the
\* original .git directory and the original pyproject.toml, and with a
\* non-zero exit status.
C3_FailureRollsBack ==
    (pc = "exited" /\ failedSteps # {}) =>
        /\ gitDir = orig.gitDir
        /\ manifest = orig.manifest
        /\ exitCode # 0

\* C4: a confirmed run in which every step succeeded ends with the manifest
\* carrying the new name and exactly the one author entry given, in a fresh
\* repository whose single commit holds the tree after all rewrites.
C4_SuccessfulRunResult ==
    (pc = "exited" /\ outcome = "completed" /\ failedSteps = {}) =>
        /\ Truthy(config.name)
        /\ manifest.name = config.name
        /\ Len(manifest.authors) = 1
        /\ manifest.authors[1] = [name |-> config.authors[1].name,
                                  email |-> config.authors[1].email]
        /\ Truthy(manifest.authors[1].name) /\ Truthy(manifest.authors[1].email)
        /\ gitDir.exists /\ gitDir.fresh
        /\ gitDir.commits = 1
        /\ gitDir.head = <<Tree>>

C4_Witness ==
    /\ pc = "exited" /\ outcome = "completed" /\ failedSteps = {}
    /\ orig.gitDir.exists /\ orig.gitDir.commits > 1
    /\ Len(orig.manifest.authors) = 2
    /\ config.name = <<"a","_","b">>
    /\ aux["README.md"].ref = <<"a","-","b">>

\* C5: the exit status is 0 exactly for a run that succeeded or was
\* declined, 130 exactly for an input validation failure, and 1 exactly
\* when a step failed (the lookup of git on the search path included).
C5_ExitStatusTaxonomy ==
    (pc = "exited") =>
        /\ (exitCode = 0) <=>
              ((outcome = "completed" /\ failedSteps = {}) \/ outcome = "declined")
        /\ (exitCode = 130) <=> (outcome = "invalid_input")
        /\ (exitCode = 1) <=> (failedSteps # {} \/ outcome = "missing_dep")

Platforms == {"Windows", "Linux", "Darwin"}

S_IEXEC == 64

RECURSIVE BitOr(_, _)
BitOr(a, b) ==
    IF a = 0 THEN b
    ELSE IF b = 0 THEN a
    ELSE (IF a % 2 = 1 \/ b % 2 = 1 THEN 1 ELSE 0) + 2 * BitOr(a \div 2, b \div 2)

RECURSIVE BitAndNot(_, _)
BitAndNot(a, b) ==
    IF a = 0 THEN 0
    ELSE (IF a % 2 = 1 /\ b % 2 = 0 THEN 1 ELSE 0) + 2 * BitAndNot(a \div 2, b \div 2)

\* The mode a file created by write_text gets: 0o666 & ~umask
NewFileMode(mask) == BitAndNot(438, mask)

Umasks == {18, 63}

ScriptFile == "validate_commit_msg.py"
HookNames == {"commit-msg", "commit-msg.bat"}
HookDirFiles == {ScriptFile} \cup HookNames

Absent == [exists |-> FALSE, content |-> "", mode |-> 0]
\* What a hooks directory may hold before the installer runs.
PreExisting == {Absent, [exists |-> TRUE, content |-> "other", mode |-> 420],
                        [exists |-> TRUE, content |-> "other", mode |-> 493]}

\* platform.system() != "Windows"
IsUnix(p) == p # "Windows"

\* script_content: with the shebang on Unix-like systems only
ScriptContent(p) == IF IsUnix(p) THEN "shebang+validator" ELSE "validator"

\* get_commit_msg_hook
CommitMsgHook(p) == IF p = "Windows" THEN "bat:python validate_commit_msg.py %1"
                    ELSE "bash:python validate_commit_msg.py $1"

\* hook_name
HookName(p) == IF p = "Windows" THEN "commit-msg.bat" ELSE "commit-msg"

\* Path.write_text: creates the file, or replaces the content of an existing one
WriteText(files, f, text, mask) ==
    [files EXCEPT ![f] = [exists |-> TRUE, content |-> text,
                          mode |-> IF @.exists THEN @.mode ELSE NewFileMode(mask)]]

HookInit ==
    /\ hookPc = "start"
    /\ platform \in Platforms
    /\ umask \in Umasks
    /\ hooksDir \in BOOLEAN
    /\ hookFiles \in [HookDirFiles -> PreExisting]
    /\ (~hooksDir => hookFiles = [f \in HookDirFiles |-> Absent])
    /\ hookRet = "none"

otherVarsOfHook == <<bootVars, valVars, chkVars, demoVars>>

\* if not hooks_dir.exists(): return False
NeverMissing(exists) == FALSE

HooksDirMissing(exists) == ~exists

CheckHooksDir ==
    /\ hookPc = "start"
    /\ IF HooksDirMissing(hooksDir)
       THEN hookPc' = "done" /\ hookRet' = "False"
       ELSE hookPc' = "write_script" /\ UNCHANGED hookRet
    /\ UNCHANGED <<platform, hooksDir, hookFiles, umask>>
    /\ UNCHANGED otherVarsOfHook

\* script_path = create_validation_script(); an OSError of write_text
\* propagates out of setup_commit_msg_hook.
CreateValidationScript ==
    /\ hookPc = "write_script"
    /\ \E ok \in BOOLEAN :
         IF ok
         THEN /\ hookFiles' = WriteText(hookFiles, ScriptFile, ScriptContent(platform), umask)
              /\ hookPc' = "write_hook"
              /\ UNCHANGED hookRet
         ELSE /\ hookPc' = "done" /\ hookRet' = "raised"
              /\ UNCHANGED hookFiles
    /\ UNCHANGED <<platform, hooksDir, umask>>
    /\ UNCHANGED otherVarsOfHook

\* hook_path.write_text(commit_msg_hook)
WriteHook ==
    /\ hookPc = "write_hook"
    /\ \E ok \in BOOLEAN :
         IF ok
         THEN /\ hookFiles' = WriteText(hookFiles, HookName(platform),
                                        CommitMsgHook(platform), umask)
              /\ hookPc' = "chmod"
              /\ UNCHANGED hookRet
         ELSE /\ hookPc' = "done" /\ hookRet' = "raised"
              /\ UNCHANGED hookFiles
    /\ UNCHANGED <<platform, hooksDir, umask>>
    /\ UNCHANGED otherVarsOfHook

\* hook_path.chmod(st.st_mode | stat.S_IEXEC) on Unix-like systems; return True
MakeExecutable ==
    /\ hookPc = "chmod"
    /\ IF IsUnix(platform)
       THEN \E ok \in BOOLEAN :
              IF ok
              THEN /\ hookFiles' = [hookFiles EXCEPT ![HookName(platform)].mode =
                                                          BitOr(@, S_IEXEC)]
                   /\ hookRet' = "True"
              ELSE /\ hookRet' = "raised"
                   /\ UNCHANGED hookFiles
       ELSE /\ hookRet' = "True"
            /\ UNCHANGED hookFiles
    /\ hookPc' = "done"
    /\ UNCHANGED <<platform, hooksDir, umask>>
    /\ UNCHANGED otherVarsOfHook

HookNext == CheckHooksDir \/ CreateValidationScript \/ WriteHook \/ MakeExecutable

InitHook == BootIdle /\ HookInit /\ ValIdle /\ ChkIdle /\ DemoIdle

SpecHook == InitHook /\ [][HookNext]_vars

\* C7: without a hooks directory the installer ends returning False with no
\* file written; it returns True only with the validation script and the
\* platform's wrapper both written into the hooks directory.
C7_NoHooksDirNoInstall ==
    /\ (~hooksDir) =>
          /\ \A f \in HookDirFiles : ~hookFiles[f].exists
          /\ hookPc \in {"start", "done"}
          /\ (hookPc = "done" => hookRet = "False")
    /\ (hookRet = "True") =>
          /\ hooksDir
          /\ hookFiles[ScriptFile].exists
          /\ hookFiles[ScriptFile].content \in {"shebang+validator", "validator"}
          /\ hookFiles[HookName(platform)].exists
          /\ hookFiles[HookName(platform)].content = CommitMsgHook(platform)

C7_Witness ==
    /\ ~hooksDir /\ hookPc = "done" /\ hookRet = "False"
    /\ platform = "Linux"


(***************************************************************************)
(* The generated validate_commit_msg.py                                    *)
(***************************************************************************)
MaxPieces == 5

Merge == <<"M","e","r","g","e">>

\* commit_types = "feat|fix|docs|style|refactor|perf|test|chore|ci|build|revert"
CommitTypes ==
    { <<"f","e","a","t">>, <<"f","i","x">>, <<"d","o","c","s">>,
      <<"s","t","y","l","e">>, <<"r","e","f","a","c","t","o","r">>,
      <<"p","e","r","f">>, <<"t","e","s","t">>, <<"c","h","o","r","e">>,
      <<"c","i">>, <<"b","u","i","l","d">>, <<"r","e","v","e","r","t">> }

\* The pattern r"^(types)(\(.+\))?!?: .{1,}" under re.match, as the sets of
\* positions the match can have consumed after each part of the pattern.
\* "." matches any character but the line break.
AfterType(s) == { Len(t) : t \in { u \in CommitTypes : StartsWith(s, u) } }

AfterScope(s, P) ==
    P \cup { q \in 1..Len(s) :
               \E p \in P : /\ p + 3 <= q
                            /\ s[p + 1] = "("
                            /\ s[q] = ")"
                            /\ \A i \in (p + 2)..(q - 1) : s[i] # "\n" }

AfterBang(s, P) == P \cup { p + 1 : p \in { r \in P : r + 1 <= Len(s) /\ s[r + 1] = "!" } }

AfterColonSpace(s, P) ==
    { p + 2 : p \in { r \in P : r + 2 <= Len(s) /\ s[r + 1] = ":" /\ s[r + 2] = " " } }

ReMatchNoBang(s) ==
    \E p \in AfterColonSpace(s, AfterScope(s, AfterType(s))) :
        p + 1 <= Len(s) /\ s[p + 1] # "\n"

ReMatch(s) ==
    \E p \in AfterColonSpace(s, AfterBang(s, AfterScope(s, AfterType(s)))) :
        p + 1 <= Len(s) /\ s[p + 1] # "\n"

\* validate_commit_message, on the content of the commit message file
ValidateCommitMessage(raw) ==
    LET commit_msg == Strip(raw)
    IN  IF StartsWith(commit_msg, Merge) THEN TRUE ELSE ReMatch(commit_msg)

\* Commit messages: every concatenation of at most MaxPieces pieces, and
\* some messages the pieces cannot build.
Pieces == << <<"f","e","a","t">>, Merge, <<"x">>, <<"(","x",")">>, <<"(",")">>,
             <<"!">>, <<":"," ">>, <<" ">> >>

RECURSIVE Flatten(_, _)
Flatten(ps, i) == IF i > Len(ps) THEN <<>> ELSE Pieces[ps[i]] \o Flatten(ps, i + 1)

BuiltMessages ==
    { Flatten(ps, 1) : ps \in UNION { [1..k -> 1..Len(Pieces)] : k \in 0..MaxPieces } }

TypeOnlyMessages == { t \o <<":"," ","x">> : t \in CommitTypes }

ExtraMessages ==
    { <<"r","a","n","d","o","m"," ","t","e","x","t">>,
      <<"f","e","a","t",":"," ","a","d","d"," ","x">>,
      <<"f","e","a","t","u","r","e",":"," ","x">>,
      <<"F","e","a","t",":"," ","x">>,
      <<"f","e","a","t",":","x">>,
      <<"f","e","a","t",":"," ","\n","x">>,
      <<"f","e","a","t",":"," ","x","\n","\n","b","o","d","y">>,
      <<"f","e","a","t","(","a","\n","b",")",":"," ","x">>,
      <<"f","e","a","t","(","a",")","(","b",")",":"," ","x">>,
      <<"f","i","x","(","a","u","t","h",")","!",":"," ","x">>,
      <<"\n"," ","c","i",":"," ","x","\n">>,
      <<"m","e","r","g","e"," ","x">>,
      <<" ","M","e","r","g","e","d","\n">>,
      <<"w","i","p"," ","f","e","a","t",":"," ","x">> }

Messages == BuiltMessages \cup TypeOnlyMessages \cup ExtraMessages

ValInit ==
    /\ valPc = "start"
    /\ commitMsg \in Messages
    /\ valResult = "none" /\ valExit = NoExit /\ valPrinted = FALSE

otherVarsOfVal == <<bootVars, hookVars, chkVars, demoVars>>

\* validate_commit_message(sys.argv[1]): the guidance is printed on a mismatch
RunValidate ==
    /\ valPc = "start"
    /\ IF ValidateCommitMessage(commitMsg)
       THEN valResult' = "True" /\ UNCHANGED valPrinted
       ELSE valResult' = "False" /\ valPrinted' = TRUE
    /\ valPc' = "validated"
    /\ UNCHANGED <<commitMsg, valExit>>
    /\ UNCHANGED otherVarsOfVal

\* if not validate_commit_message(...): sys.exit(1)
ScriptExit ==
    /\ valPc = "validated"
    /\ valExit' = IF valResult = "False" THEN 1 ELSE 0
    /\ valPc' = "exited"
    /\ UNCHANGED <<commitMsg, valResult, valPrinted>>
    /\ UNCHANGED otherVarsOfVal

ValNext == RunValidate \/ ScriptExit

InitValidate == BootIdle /\ HookIdle /\ ValInit /\ ChkIdle /\ DemoIdle

SpecValidate == InitValidate /\ [][ValNext]_vars

\* The type tokens as the claim lists them.
ClaimedTypes ==
    { <<"f","e","a","t">>, <<"f","i","x">>, <<"d","o","c","s">>,
      <<"s","t","y","l","e">>, <<"r","e","f","a","c","t","o","r">>,
      <<"p","e","r","f">>, <<"t","e","s","t">>, <<"c","h","o","r","e">>,
      <<"c","i">>, <<"b","u","i","l","d">>, <<"r","e","v","e","r","t">> }

\* m = type, then k characters of scope (none, or "(" .. ")" around at least
\* one character), then b characters of "!", then ": " and one more
\* character; the scope and that character lie on the subject line.
ConventionalForm(m) ==
    \E t \in ClaimedTypes, k \in 0..Len(m), b \in {0, 1} :
        LET n == Len(t)
        IN  /\ Len(m) >= n + k + b + 3
            /\ SubSeq(m, 1, n) = t
            /\ k # 0 => /\ k >= 3
                        /\ m[n + 1] = "("
                        /\ m[n + k] = ")"
                        /\ \A i \in (n + 2)..(n + k - 1) : m[i] # "\n"
            /\ b = 1 => m[n + k + 1] = "!"
            /\ m[n + k + b + 1] = ":"
            /\ m[n + k + b + 2] = " "
            /\ m[n + k + b + 3] # "\n"

\* C8: the validator accepts the stripped message exactly when it starts
\* with "Merge" or has the conventional form; a rejected message prints the
\* guidance and ends the hook with status 1, an accepted one with status 0.
C8_ValidatorGrammar ==
    (valPc # "start") =>
        /\ (valResult = "True") <=>
              (StartsWith(Strip(commitMsg), Merge) \/ ConventionalForm(Strip(commitMsg)))
        /\ (valResult = "False") => valPrinted
        /\ (valPc = "exited") =>
              /\ (valResult = "False") => valExit = 1
              /\ (valResult = "True") => valExit = 0

C8_Witness ==
    /\ valPc = "exited" /\ valResult = "True" /\ valExit = 0
    /\ commitMsg = <<"f","e","a","t","(","x",")","!",":"," ","x">>


(***************************************************************************)
(* scripts/check_git_config.py                                             *)
(***************************************************************************)
MaxCalls == 2

\* What `git config --get <key>` exits with and prints.
Unset == [rc |-> 1, out |-> <<>>]
NameOutcomes == { Unset, [rc |-> 0, out |-> <<"A","l","\n">>], [rc |-> 0, out |-> <<" ","\n">>] }
EmailOutcomes == { Unset, [rc |-> 0, out |-> <<"a","@","x","\n">>] }
CrlfOutcomes == { Unset,
                  [rc |-> 0, out |-> <<"i","n","p","u","t","\n">>],
                  [rc |-> 0, out |-> <<"t","r","u","e","\n">>],
                  [rc |-> 0, out |-> <<"I","n","p","u","t","\n">>],
                  [rc |-> 0, out |-> <<" ","T","R","U","E"," ","\n">>],
                  [rc |-> 0, out |-> <<"f","a","l","s","e","\n">>],
                  [rc |-> 0, out |-> <<"\n">>] }

\* Return values of the checks: a str, a bool, a dict (as its items), or an
\* exception leaving the function.
StrRet(v) == [kind |-> "str", s |-> v, b |-> FALSE, d |-> <<>>]
BoolRet(v) == [kind |-> "bool", s |-> <<>>, b |-> v, d |-> <<>>]
DictRet(items) == [kind |-> "dict", s |-> <<>>, b |-> FALSE, d |-> items]
Raised == [kind |-> "raised", s |-> <<>>, b |-> FALSE, d |-> <<>>]
NoRet == [kind |-> "none", s |-> <<>>, b |-> FALSE, d |-> <<>>]

\* `not value`
PyFalsy(r) ==
    \/ r.kind = "str" /\ r.s = <<>>
    \/ r.kind = "bool" /\ ~r.b
    \/ r.kind = "dict" /\ r.d = <<>>

\* subprocess.run(["git", "config", "--get", key], check=check): the exception
\* it raises, or the completed process.
SubprocessRun(env, key, check) ==
    IF env.git = "missing" THEN [exc |-> "FileNotFoundError", rc |-> 0, out |-> <<>>]
    ELSE IF env.git = "oserror" THEN [exc |-> "PermissionError", rc |-> 0, out |-> <<>>]
    ELSE IF check /\ env[key].rc # 0
         THEN [exc |-> "CalledProcessError", rc |-> env[key].rc, out |-> <<>>]
    ELSE [exc |-> "none", rc |-> env[key].rc, out |-> env[key].out]

CheckUserUnguarded(env) ==
    LET result == SubprocessRun(env, "name", FALSE)
    IN  IF result.exc = "FileNotFoundError" THEN BoolRet(FALSE)
        ELSE IF result.exc # "none" THEN Raised
        ELSE IF result.rc # 0 \/ ~Truthy(Strip(result.out)) THEN StrRet(<<>>)
        ELSE StrRet(Strip(result.out))

CheckUser(env) ==
    LET result == SubprocessRun(env, "name", FALSE)
    IN  IF result.exc = "FileNotFoundError" THEN BoolRet(FALSE)
        ELSE IF result.exc # "none" THEN BoolRet(FALSE)
        ELSE IF result.rc # 0 \/ ~Truthy(Strip(result.out)) THEN StrRet(<<>>)
        ELSE StrRet(Strip(result.out))

CheckEmail(env) ==
    LET result == SubprocessRun(env, "email", FALSE)
    IN  IF result.exc = "FileNotFoundError" THEN StrRet(<<>>)
        ELSE IF result.exc # "none" THEN StrRet(<<>>)
        ELSE IF result.rc # 0 \/ ~Truthy(Strip(result.out)) THEN StrRet(<<>>)
        ELSE StrRet(Strip(result.out))

InputStr == <<"i","n","p","u","t">>
TrueStr == <<"t","r","u","e">>

CheckAutocrlfCaseSensitive(env) ==
    LET result == SubprocessRun(env, "crlf", TRUE)
        autocrlf == Strip(result.out)
    IN  IF result.exc = "FileNotFoundError" THEN BoolRet(FALSE)
        ELSE IF result.exc # "none" THEN BoolRet(FALSE)
        ELSE IF env.platform = "Windows" /\ autocrlf # TrueStr THEN BoolRet(FALSE)
        ELSE IF env.platform # "Windows" /\ autocrlf # InputStr THEN BoolRet(FALSE)
        ELSE BoolRet(TRUE)

CheckAutocrlf(env) ==
    LET result == SubprocessRun(env, "crlf", TRUE)
        autocrlf == Lower(Strip(result.out))
    IN  IF result.exc = "FileNotFoundError" THEN BoolRet(FALSE)
        ELSE IF result.exc # "none" THEN BoolRet(FALSE)
        ELSE IF env.platform = "Windows" /\ autocrlf # TrueStr THEN BoolRet(FALSE)
        ELSE IF env.platform # "Windows" /\ autocrlf # InputStr THEN BoolRet(FALSE)
        ELSE BoolRet(TRUE)

IdentityItems(u, e) == << [key |-> "username", val |-> u], [key |-> "email", val |-> e] >>

CheckGitConfig(env) ==
    LET username == CheckUser(env)
        email == CheckEmail(env)
        crlfOk == CheckAutocrlf(env)
    IN  IF username.kind = "raised" THEN Raised
        ELSE IF PyFalsy(username) THEN DictRet(<<>>)
        ELSE IF email.kind = "raised" THEN Raised
        ELSE IF PyFalsy(email) THEN DictRet(<<>>)
        ELSE IF crlfOk.kind = "raised" THEN Raised
        ELSE IF PyFalsy(crlfOk) THEN DictRet(<<>>)
        ELSE DictRet(IdentityItems(username.s, email.s))

\* The module-level username, email and crlf
ModuleGlobals == [username |-> "Hopefully not this",
                  email |-> "Hopefully not this either",
                  crlf |-> "Must be OK"]

\* The local variable a check binds (username, email), if any
LocalBound(fn, ret) ==
    IF fn \in {"check_user", "check_email"} /\ ret.kind = "str" /\ Truthy(ret.s)
    THEN << [var |-> IF fn = "check_user" THEN "username" ELSE "email", val |-> ret.s] >>
    ELSE <<>>

ChkInit ==
    /\ chkPc = "ready"
    /\ \E p \in Platforms :
         \/ \E g \in {"missing", "oserror"} :
              gitEnv = [git |-> g, platform |-> p, name |-> Unset, email |-> Unset,
                        crlf |-> Unset]
         \/ \E n \in NameOutcomes, e \in EmailOutcomes, c \in CrlfOutcomes :
              gitEnv = [git |-> "ok", platform |-> p, name |-> n, email |-> e, crlf |-> c]
    /\ chkFn = "none" /\ chkRet = NoRet /\ chkLocals = <<>>
    /\ chkGlobals = ModuleGlobals
    /\ chkCalls = 0 /\ chkLog = <<>>

otherVarsOfChk == <<bootVars, hookVars, valVars, demoVars>>

\* A call whose assignment reaches the module-level variable instead of a local.
ReturnsWritingGlobals(fn, ret) ==
    /\ chkCalls < MaxCalls
    /\ chkPc \in {"ready", "returned"}
    /\ chkFn' = fn
    /\ chkRet' = ret
    /\ chkPc' = IF ret.kind = "raised" THEN "raised" ELSE "returned"
    /\ chkLocals' = <<>>
    /\ chkCalls' = chkCalls + 1
    /\ chkLog' = Append(chkLog, [fn |-> fn, ret |-> ret])
    /\ chkGlobals' = IF LocalBound(fn, ret) = <<>> THEN chkGlobals
                     ELSE IF fn = "check_user"
                          THEN [chkGlobals EXCEPT !.username = "the retrieved user.name"]
                          ELSE [chkGlobals EXCEPT !.email = "the retrieved user.email"]
    /\ UNCHANGED gitEnv
    /\ UNCHANGED otherVarsOfChk

\* A call of fn that ends with ret: the caller goes on unless the call raised.
Returns(fn, ret) ==
    /\ chkCalls < MaxCalls
    /\ chkPc \in {"ready", "returned"}
    /\ chkFn' = fn
    /\ chkRet' = ret
    /\ chkPc' = IF ret.kind = "raised" THEN "raised" ELSE "returned"
    /\ chkLocals' = LocalBound(fn, ret)
    /\ chkCalls' = chkCalls + 1
    /\ chkLog' = Append(chkLog, [fn |-> fn, ret |-> ret])
    /\ UNCHANGED <<gitEnv, chkGlobals>>
    /\ UNCHANGED otherVarsOfChk

CallCheckUser == Returns("check_user", CheckUser(gitEnv))
CallCheckEmail == Returns("check_email", CheckEmail(gitEnv))
CallCheckAutocrlf == Returns("check_autocrlf", CheckAutocrlf(gitEnv))
CallCheckGitConfig == Returns("check_git_config", CheckGitConfig(gitEnv))

ChkNext == CallCheckUser \/ CallCheckEmail \/ CallCheckAutocrlf \/ CallCheckGitConfig

InitCheck == BootIdle /\ HookIdle /\ ValIdle /\ ChkInit /\ DemoIdle

SpecCheck == InitCheck /\ [][ChkNext]_vars

\* The policy as the claim states it.
ExpectedAutocrlf(p) == IF p = "Windows" THEN <<"t","r","u","e">> ELSE <<"i","n","p","u","t">>

AutocrlfPasses(env) ==
    /\ env.git = "ok"
    /\ env.crlf.rc = 0
    /\ Lower(Strip(env.crlf.out)) = ExpectedAutocrlf(env.platform)

UserPasses(env) == env.git = "ok" /\ env.name.rc = 0 /\ Strip(env.name.out) # <<>>
EmailPasses(env) == env.git = "ok" /\ env.email.rc = 0 /\ Strip(env.email.out) # <<>>

\* C9: every call of check_autocrlf returns True when git reports a
\* core.autocrlf that, trimmed and lower-cased, is the platform's expected
\* value, and False in every other case.
C9_AutocrlfPolicy ==
    \A i \in 1..Len(chkLog) :
        chkLog[i].fn = "check_autocrlf" =>
            chkLog[i].ret = BoolRet(AutocrlfPasses(gitEnv))

C9_Witness ==
    /\ chkFn = "check_autocrlf" /\ chkRet = BoolRet(TRUE)
    /\ gitEnv.platform = "Windows"
    /\ gitEnv.crlf.out = <<" ","T","R","U","E"," ","\n">>

\* C10: no check raises; a check whose condition fails returns a falsy
\* value; check_git_config returns the retrieved username and email when
\* all three checks pass and the empty dict otherwise.
C10_ChecksNeverFatal ==
    /\ chkPc # "raised"
    /\ \A i \in 1..Len(chkLog) :
         LET fn == chkLog[i].fn
             ret == chkLog[i].ret
         IN  /\ ret.kind # "raised"
             /\ (fn = "check_user" /\ ~UserPasses(gitEnv)) => PyFalsy(ret)
             /\ (fn = "check_email" /\ ~EmailPasses(gitEnv)) => PyFalsy(ret)
             /\ (fn = "check_autocrlf" /\ ~AutocrlfPasses(gitEnv)) => PyFalsy(ret)
             /\ (fn = "check_git_config") =>
                   ret = IF UserPasses(gitEnv) /\ EmailPasses(gitEnv) /\ AutocrlfPasses(gitEnv)
                         THEN DictRet(IdentityItems(Strip(gitEnv.name.out),
                                                    Strip(gitEnv.email.out)))
                         ELSE DictRet(<<>>)

C10_Witness ==
    /\ chkFn = "check_git_config" /\ chkRet = DictRet(<<>>)
    /\ gitEnv.git = "ok" /\ UserPasses(gitEnv) /\ EmailPasses(gitEnv)
    /\ ~AutocrlfPasses(gitEnv)
    /\ \E i \in 1..Len(chkLog) : chkLog[i].fn = "check_user" /\ ~PyFalsy(chkLog[i].ret)


C13_ValidationPrecedesMutation ==
    /\ (~resolved.read) => (Project = orig /\ backups = {})
    /\ (resolved.read /\ (resolved.name = <<>> \/ resolved.author = <<>>
                           \/ resolved.email = <<>>)) =>
          /\ pc = "exited"
          /\ exitCode = 130
          /\ Project = orig
          /\ backups = {}

C13_Witness ==
    /\ resolved.read /\ resolved.name # <<>> /\ resolved.author # <<>>
    /\ resolved.email = <<>>
    /\ pc = "exited" /\ exitCode = 130
    /\ orig.gitDir.exists /\ orig.pkgDir.exists


(***************************************************************************)
(* src/python_try/main.py                                                  *)
(***************************************************************************)
MaxArgLen == 3

DemoAlphabet == {"a", " ", "{", "\n"}

World == <<"w","o","r","l","d">>

\* The strings main is called with: every string of at most MaxArgLen
\* characters, and the argument of test_main.
DemoArgs == UNION { [1..k -> DemoAlphabet] : k \in 0..MaxArgLen } \cup {World}

MainReceived == <<"m","a","i","n"," ","r","e","c","e","i","v","e","d"," ">>

\* main as its docstring describes it: ValueError for an empty string
MainRaisingOnEmpty(hello) ==
    IF hello = <<>> THEN [kind |-> "raised", s |-> <<>>]
    ELSE [kind |-> "str", s |-> MainReceived \o hello]

\* return f"main received {hello}"
Main(hello) == [kind |-> "str", s |-> MainReceived \o hello]

DemoInit ==
    /\ demoPc = "start"
    /\ demoArg \in DemoArgs
    /\ demoRet = [kind |-> "none", s |-> <<>>]

\* A call main(demoArg)
CallMain ==
    /\ demoPc = "start"
    /\ demoRet' = Main(demoArg)
    /\ demoPc' = IF Main(demoArg).kind = "raised" THEN "raised" ELSE "returned"
    /\ UNCHANGED demoArg
    /\ UNCHANGED <<bootVars, hookVars, valVars, chkVars>>

DemoNext == CallMain

InitDemo == BootIdle /\ HookIdle /\ ValIdle /\ ChkIdle /\ DemoInit

SpecDemo == InitDemo /\ [][DemoNext]_vars

====
